---- MODULE Spec2Model ----
(***************************************************************************)
(* Cost aggregation and budget-rule engine of the AWS cost optimization    *)
(* platform: the budget-alert, cost-optimizer and cost-processor Lambda    *)
(* functions with the DynamoDB table they write to, and the CostService    *)
(* and BudgetService queries of the backend over the cost_data and         *)
(* budget_alerts tables.                                                   *)
(*                                                                         *)
(* Money is held in integer cents: 20.01 USD is 2001.  The code holds it   *)
(* in binary floating point; the places where that matters (a formatted    *)
(* product lying exactly halfway between two cents) are modelled as a      *)
(* choice between the two neighbouring cents.                              *)
(***************************************************************************)
EXTENDS Integers, Sequences, FiniteSets, TLC

VARIABLES
    evCosts,    \* check_budget_thresholds: the costs argument (dict, in insertion order)
    evLimits,   \* the BudgetLimits a caller would like applied (the code takes no such argument)
    evAlerts,   \* check_budget_thresholds: the returned list
    evPc,       \* "call" before the call, "ret" after it
    genData,    \* generate_recommendations: the cost_data argument (a Cost Explorer response)
    genUp,      \* the categories whose savings, when halfway between two cents, print as the upper one
    genRecs,    \* generate_recommendations: the returned list
    genPc,      \* "input" while the response is put together, "ret" after the call
    table,      \* the items of the cost-tracking DynamoDB table
    cycles,     \* the handler invocations started so far
    log,        \* the finished invocations: what each generated and returned
    ba,         \* the budget-alert invocations
    co,         \* the cost-optimizer invocation
    rows,       \* the rows of the backend's cost_data table, in the order of their ids
    reply,      \* what the last query of the backend returned
    budget_alerts, \* the rows of the backend's budget_alerts table, in the order of their ids
    hour        \* datetime.now() of the backend, in hours

evVars == <<evCosts, evLimits, evAlerts, evPc>>
genVars == <<genData, genUp, genRecs, genPc>>
lamVars == <<table, cycles, log, ba, co>>
beVars == <<rows, reply>>
buVars == <<budget_alerts, hour>>
vars == <<evVars, genVars, lamVars, beVars, buVars>>

\* No query has been answered since the rows last changed.
NoReply == [kind |-> "none"]

(***************************************************************************)
(* Service names                                                           *)
(***************************************************************************)
EC2 == "Amazon Elastic Compute Cloud"
RDS == "Amazon Relational Database Service"
S3  == "Amazon Simple Storage Service"
EKS == "Amazon Elastic Kubernetes Service"
\* A service Cost Explorer reports that no rule of the code names.
OTHER_SERVICE == "AWS Lambda"

Services == {EC2, RDS, S3, EKS, OTHER_SERVICE}

(***************************************************************************)
(* budget_alert.py: check_budget_thresholds                                *)
(***************************************************************************)
\* Mutant: the thresholds of the sample alerts instead of the function's own.
BUDGET_LIMITS_SampleData ==
    [total_monthly |-> 10000,
     ec2_monthly   |-> 10000,
     rds_monthly   |-> 7500,
     s3_monthly    |-> 500,
     eks_monthly   |-> 2500]

BUDGET_LIMITS ==
    [total_monthly |-> 5000,
     ec2_monthly   |-> 2000,
     rds_monthly   |-> 1500,
     s3_monthly    |-> 500,
     eks_monthly   |-> 2500]

service_mapping ==
    (EC2 :> "ec2_monthly") @@ (RDS :> "rds_monthly") @@
    (S3 :> "s3_monthly") @@ (EKS :> "eks_monthly")

\* Mutant: only the services that have a budget of their own are summed.
RECURSIVE SumCostsMappedOnly(_)
SumCostsMappedOnly(costs) ==
    IF costs = <<>> THEN 0
    ELSE (IF Head(costs).service \in {EC2, RDS, S3, EKS} THEN Head(costs).cost ELSE 0)
         + SumCostsMappedOnly(Tail(costs))

\* sum(costs.values())
RECURSIVE SumCosts(_)
SumCosts(costs) ==
    IF costs = <<>> THEN 0
    ELSE Head(costs).cost + SumCosts(Tail(costs))

\* Mutant: the total limit itself already counts as a breach.
TotalExceedsOrEqual(total_cost, limit) == total_cost >= limit

\* total_cost > BUDGET_LIMITS['total_monthly']
TotalExceeds(total_cost, limit) == total_cost > limit

\* Mutant: a service limit itself already counts as a breach.
ServiceExceedsOrEqual(cost, limit) == cost >= limit

\* cost > BUDGET_LIMITS[budget_key]
ServiceExceeds(cost, limit) == cost > limit

\* service in service_mapping
IsMapped(service) == service \in DOMAIN service_mapping

TotalAlert(total_cost) ==
    [type         |-> "BUDGET_EXCEEDED",
     service      |-> "TOTAL",
     current_cost |-> total_cost,
     budget_limit |-> BUDGET_LIMITS["total_monthly"],
     message      |-> <<"Total monthly budget exceeded", total_cost,
                        BUDGET_LIMITS["total_monthly"]>>]

ServiceAlert(service, cost) ==
    [type         |-> "SERVICE_BUDGET_EXCEEDED",
     service      |-> service,
     current_cost |-> cost,
     budget_limit |-> BUDGET_LIMITS[service_mapping[service]],
     message      |-> <<service, cost, BUDGET_LIMITS[service_mapping[service]]>>]

\* for service, cost in costs.items(): ...
RECURSIVE ServiceAlerts(_)
ServiceAlerts(costs) ==
    IF costs = <<>> THEN <<>>
    ELSE LET service == Head(costs).service
             cost    == Head(costs).cost
         IN  (IF IsMapped(service)
                 /\ ServiceExceeds(cost, BUDGET_LIMITS[service_mapping[service]])
              THEN <<ServiceAlert(service, cost)>>
              ELSE <<>>)
             \o ServiceAlerts(Tail(costs))

\* Mutant: the alert of the total comes after those of the services.
check_budget_thresholds_ServicesFirst(costs) ==
    LET total_cost == SumCosts(costs)
    IN  ServiceAlerts(costs)
        \o (IF TotalExceeds(total_cost, BUDGET_LIMITS["total_monthly"])
            THEN <<TotalAlert(total_cost)>>
            ELSE <<>>)

check_budget_thresholds(costs) ==
    LET total_cost == SumCosts(costs)
    IN  (IF TotalExceeds(total_cost, BUDGET_LIMITS["total_monthly"])
         THEN <<TotalAlert(total_cost)>>
         ELSE <<>>)
        \o ServiceAlerts(costs)

(***************************************************************************)
(* Inputs of check_budget_thresholds                                       *)
(***************************************************************************)
\* At most this many services in one costs dict.
MaxServices == 3

\* Costs in cents a service may be reported with: its limit, one cent more,
\* and the figures of the repository's sample data.
CostChoices ==
    (EC2 :> {2000, 2001, 12550}) @@ (RDS :> {1500, 1501, 8575}) @@
    (S3 :> {500, 501}) @@ (EKS :> {2500, 2501}) @@ (OTHER_SERVICE :> {5000, 5001})

CostEntries ==
    {[service |-> s, cost |-> c] : s \in Services, c \in UNION {CostChoices[t] : t \in Services}}

ValidEntries == {e \in CostEntries : e.cost \in CostChoices[e.service]}

\* A dict has one entry per key: the services of a costs dict are distinct.
DistinctServices(costs) ==
    \A i, j \in DOMAIN costs : i # j => costs[i].service # costs[j].service

CostDicts ==
    UNION {{costs \in [1..k -> ValidEntries] : DistinctServices(costs)} : k \in 0..MaxServices}

\* Limits a caller may have in mind, in the shape of the specification's
\* BudgetLimits (a total and per-service limits): the figures written in
\* check_budget_thresholds, those of the scenario, and a malformed one.
CodeLimits ==
    [total |-> 5000,
     perService |-> (EC2 :> 2000) @@ (RDS :> 1500) @@ (S3 :> 500) @@ (EKS :> 2500)]

ScenarioLimits ==
    [total |-> 10000, perService |-> (EC2 :> 10000) @@ (RDS :> 7500)]

\* A configuration with a negative total and a negative service limit.
NegativeLimits ==
    [total |-> -1, perService |-> (EC2 :> -2000) @@ (RDS :> 1500)]

LimitConfigs == {CodeLimits, ScenarioLimits, NegativeLimits}

InitEvaluate ==
    /\ evCosts \in CostDicts
    /\ evLimits \in LimitConfigs
    /\ evAlerts = <<>>
    /\ evPc = "call"
    /\ genData = <<>> /\ genUp = {} /\ genRecs = <<>> /\ genPc = "ret"
    /\ table = {} /\ cycles = 0 /\ log = {} /\ ba = <<>> /\ co = <<>>
    /\ rows = <<>> /\ reply = NoReply
    /\ budget_alerts = <<>> /\ hour = 0

\* alerts = check_budget_thresholds(current_costs)
Evaluate ==
    /\ evPc = "call"
    /\ evAlerts' = check_budget_thresholds(evCosts)
    /\ evPc' = "ret"
    /\ UNCHANGED <<buVars, evCosts, evLimits, genVars, lamVars, beVars>>

NextEvaluate == Evaluate

(***************************************************************************)
(* cost_optimizer.py: generate_recommendations                             *)
(*                                                                         *)
(* cost_data is a Cost Explorer response: ResultsByTime is a list of       *)
(* results, each with a Total amount and a list of Groups; a group has     *)
(* Keys (a list holding the service name) and an Amount.                   *)
(***************************************************************************)
\* 'Amazon ...' in group['Keys']
InKeys(name, keys) == \E k \in DOMAIN keys : keys[k] = name

\* for group in result.get('Groups', []): if name in group['Keys']: cost += amount
RECURSIVE GroupsCost(_, _)
GroupsCost(groups, name) ==
    IF groups = <<>> THEN 0
    ELSE (IF InKeys(name, Head(groups).Keys) THEN Head(groups).Amount ELSE 0)
         + GroupsCost(Tail(groups), name)

\* for result in cost_data.get('ResultsByTime', []): ...
RECURSIVE ServiceCost(_, _)
ServiceCost(cost_data, name) ==
    IF cost_data = <<>> THEN 0
    ELSE GroupsCost(Head(cost_data).Groups, name) + ServiceCost(Tail(cost_data), name)

\* total_cost += float(result['Total']['BlendedCost']['Amount'])
RECURSIVE TotalCost(_)
TotalCost(cost_data) ==
    IF cost_data = <<>> THEN 0
    ELSE Head(cost_data).Total + TotalCost(Tail(cost_data))

\* Mutant: the product is cut to whole cents instead of rounded.
FormatSavingsTruncated(cost, tenths, up) == <<"$", (cost * tenths) \div 10>>

\* f'${cost * 0.3:.2f}': the product of a cost and a multiplier (given in
\* tenths) printed with two decimals behind a dollar sign.  The product is
\* rounded to the nearest cent; exactly halfway between two cents the
\* floating-point error of the product decides, here the flag up.
FormatSavings(cost, tenths, up) ==
    LET q == (cost * tenths) \div 10
        r == (cost * tenths) % 10
    IN  <<"$", IF r > 5 \/ (r = 5 /\ up) THEN q + 1 ELSE q>>

\* Whether cost * multiplier lies exactly halfway between two cents.
IsTie(cost, tenths) == (cost * tenths) % 10 = 5

\* Mutant: the EC2 rule fires at the threshold already.
Ec2HighOrEqual(ec2_cost) == ec2_cost >= 2000

\* if ec2_cost > 20
Ec2High(ec2_cost) == ec2_cost > 2000
\* if rds_cost > 10
RdsHigh(rds_cost) == rds_cost > 1000
\* if s3_cost > 5
S3High(s3_cost) == s3_cost > 500
\* if eks_cost > 15
EksHigh(eks_cost) == eks_cost > 1500

\* Mutant: the general rules fire on the sum of the group amounts.
GeneralTotalFromGroups(cost_data) ==
    ServiceCost(cost_data, EC2) + ServiceCost(cost_data, RDS) + ServiceCost(cost_data, S3)
    + ServiceCost(cost_data, EKS)

\* generate_general_recommendations: total_cost
GeneralTotal(cost_data) == TotalCost(cost_data)

\* if total_cost > 50
TotalHigh(total_cost) == total_cost > 5000

analyze_ec2_costs(cost_data, up) ==
    LET ec2_cost == ServiceCost(cost_data, EC2)
    IN  IF Ec2High(ec2_cost)
        THEN <<[service  |-> "EC2",
                priority |-> "HIGH",
                category |-> "RIGHT_SIZING",
                title    |-> "Consider Right-Sizing EC2 Instances",
                description |-> <<"EC2 costs are $", ec2_cost>>,
                potential_savings |-> FormatSavings(ec2_cost, 3, "RIGHT_SIZING" \in up),
                action   |-> "Review EC2 instances and consider t2.micro or t3.micro instances",
                impact   |-> "MEDIUM"],
               [service  |-> "EC2",
                priority |-> "MEDIUM",
                category |-> "RESERVED_INSTANCES",
                title    |-> "Consider Reserved Instances",
                description |-> <<"For predictable workloads, Reserved Instances can save up to 75%.", 0>>,
                potential_savings |-> FormatSavings(ec2_cost, 5, "RESERVED_INSTANCES" \in up),
                action   |-> "Analyze usage patterns and consider Reserved Instances",
                impact   |-> "HIGH"]>>
        ELSE <<>>

analyze_rds_costs(cost_data, up) ==
    LET rds_cost == ServiceCost(cost_data, RDS)
    IN  IF RdsHigh(rds_cost)
        THEN <<[service  |-> "RDS",
                priority |-> "HIGH",
                category |-> "INSTANCE_OPTIMIZATION",
                title    |-> "Optimize RDS Instance Size",
                description |-> <<"RDS costs are $", rds_cost>>,
                potential_savings |-> FormatSavings(rds_cost, 4, "INSTANCE_OPTIMIZATION" \in up),
                action   |-> "Review RDS instance types and consider smaller instances",
                impact   |-> "MEDIUM"]>>
        ELSE <<>>

analyze_s3_costs(cost_data, up) ==
    LET s3_cost == ServiceCost(cost_data, S3)
    IN  IF S3High(s3_cost)
        THEN <<[service  |-> "S3",
                priority |-> "MEDIUM",
                category |-> "LIFECYCLE_POLICIES",
                title    |-> "Implement S3 Lifecycle Policies",
                description |-> <<"S3 costs are $", s3_cost>>,
                potential_savings |-> FormatSavings(s3_cost, 6, "LIFECYCLE_POLICIES" \in up),
                action   |-> "Set up lifecycle policies to transition data to IA and Glacier",
                impact   |-> "HIGH"]>>
        ELSE <<>>

analyze_eks_costs(cost_data, up) ==
    LET eks_cost == ServiceCost(cost_data, EKS)
    IN  IF EksHigh(eks_cost)
        THEN <<[service  |-> "EKS",
                priority |-> "HIGH",
                category |-> "NODE_OPTIMIZATION",
                title    |-> "Optimize EKS Node Configuration",
                description |-> <<"EKS costs are $", eks_cost>>,
                potential_savings |-> FormatSavings(eks_cost, 7, "NODE_OPTIMIZATION" \in up),
                action   |-> "Use spot instances for non-critical workloads and optimize node sizing",
                impact   |-> "HIGH"]>>
        ELSE <<>>

generate_general_recommendations(cost_data, up) ==
    LET total_cost == GeneralTotal(cost_data)
    IN  IF TotalHigh(total_cost)
        THEN <<[service  |-> "GENERAL",
                priority |-> "HIGH",
                category |-> "BUDGET_MONITORING",
                title    |-> "Set Up Budget Alerts",
                description |-> <<"Total costs are $", total_cost>>,
                potential_savings |-> FormatSavings(total_cost, 2, "BUDGET_MONITORING" \in up),
                action   |-> "Configure AWS Budgets with alerts at 50%, 80%, and 100% of budget",
                impact   |-> "HIGH"],
               [service  |-> "GENERAL",
                priority |-> "MEDIUM",
                category |-> "COST_ALLOCATION",
                title    |-> "Implement Cost Allocation Tags",
                description |-> <<"Use tags to track costs by project, environment, or team.", 0>>,
                potential_savings |-> FormatSavings(total_cost, 1, "COST_ALLOCATION" \in up),
                action   |-> "Implement consistent tagging strategy across all resources",
                impact   |-> "MEDIUM"]>>
        ELSE <<>>

\* Mutant: the general recommendations are put first.
generate_recommendations_GeneralFirst(cost_data, up) ==
    generate_general_recommendations(cost_data, up)
    \o analyze_ec2_costs(cost_data, up)
    \o analyze_rds_costs(cost_data, up)
    \o analyze_s3_costs(cost_data, up)
    \o analyze_eks_costs(cost_data, up)

generate_recommendations(cost_data, up) ==
    analyze_ec2_costs(cost_data, up)
    \o analyze_rds_costs(cost_data, up)
    \o analyze_s3_costs(cost_data, up)
    \o analyze_eks_costs(cost_data, up)
    \o generate_general_recommendations(cost_data, up)

\* The categories whose product is exactly halfway between two cents for
\* this input: only there does the floating-point error matter.
TieCategories(cost_data) ==
    {c \in {"RIGHT_SIZING"} : IsTie(ServiceCost(cost_data, EC2), 3)}
    \cup {c \in {"RESERVED_INSTANCES"} : IsTie(ServiceCost(cost_data, EC2), 5)}
    \cup {c \in {"INSTANCE_OPTIMIZATION"} : IsTie(ServiceCost(cost_data, RDS), 4)}
    \cup {c \in {"LIFECYCLE_POLICIES"} : IsTie(ServiceCost(cost_data, S3), 6)}
    \cup {c \in {"NODE_OPTIMIZATION"} : IsTie(ServiceCost(cost_data, EKS), 7)}
    \cup {c \in {"BUDGET_MONITORING"} : IsTie(GeneralTotal(cost_data), 2)}
    \cup {c \in {"COST_ALLOCATION"} : IsTie(GeneralTotal(cost_data), 1)}

(***************************************************************************)
(* Inputs of generate_recommendations                                      *)
(***************************************************************************)
\* At most this many results (days) in one response.
MaxResults == 2
\* At most this many groups in one response, over all its results.
MaxGroups == 2

\* Amounts in cents a group may carry: the rule's threshold, one cent more,
\* and the figures of the repository's mock data.
AmountChoices ==
    (EC2 :> {2000, 2001, 2530}) @@ (RDS :> {1000, 1001}) @@
    (S3 :> {500, 501}) @@ (EKS :> {1500, 1501}) @@ (OTHER_SERVICE :> {9999})

\* Total amounts in cents a result may carry.
TotalChoices == {2500, 2501, 2530}

GroupEntries ==
    UNION {{[Keys |-> <<s>>, Amount |-> a] : a \in AmountChoices[s]} : s \in Services}

\* Cost Explorer groups by service: the services of one result are distinct.
DistinctKeys(groups) ==
    \A i, j \in DOMAIN groups : i # j => groups[i].Keys # groups[j].Keys

\* The number of groups of a response, over all its results.
RECURSIVE CountGroups(_)
CountGroups(cost_data) ==
    IF cost_data = <<>> THEN 0
    ELSE Len(Head(cost_data).Groups) + CountGroups(Tail(cost_data))

InitGenerate ==
    /\ genData = <<>>
    /\ genUp = {}
    /\ genRecs = <<>>
    /\ genPc = "input"
    /\ evCosts = <<>> /\ evLimits = CodeLimits /\ evAlerts = <<>> /\ evPc = "ret"
    /\ table = {} /\ cycles = 0 /\ log = {} /\ ba = <<>> /\ co = <<>>
    /\ rows = <<>> /\ reply = NoReply
    /\ budget_alerts = <<>> /\ hour = 0

\* The response of get_cost_and_usage gets one more result (a day), with
\* its Total.
ResponseAddResult ==
    /\ genPc = "input"
    /\ Len(genData) < MaxResults
    /\ \E t \in TotalChoices :
        genData' = Append(genData, [Total |-> t, Groups |-> <<>>])
    /\ UNCHANGED <<buVars, genUp, genRecs, genPc, evVars, lamVars, beVars>>

\* The last result of the response gets one more group, of a service it
\* does not hold yet.
ResponseAddGroup ==
    /\ genPc = "input"
    /\ genData # <<>>
    /\ CountGroups(genData) < MaxGroups
    /\ \E e \in GroupEntries :
        LET last == genData[Len(genData)]
        IN  /\ DistinctKeys(Append(last.Groups, e))
            /\ genData' = [genData EXCEPT ![Len(genData)].Groups = Append(last.Groups, e)]
    /\ UNCHANGED <<buVars, genUp, genRecs, genPc, evVars, lamVars, beVars>>

\* recommendations = generate_recommendations(cost_data)
Generate ==
    /\ genPc = "input"
    /\ \E up \in SUBSET TieCategories(genData) :
        /\ genUp' = up
        /\ genRecs' = generate_recommendations(genData, up)
    /\ genPc' = "ret"
    /\ UNCHANGED <<buVars, genData, evVars, lamVars, beVars>>

NextGenerate ==
    \/ ResponseAddResult
    \/ ResponseAddGroup
    \/ Generate

SpecGenerate == InitGenerate /\ [][NextGenerate]_vars

SpecEvaluate == InitEvaluate /\ [][NextEvaluate]_vars

(***************************************************************************)
(* The Lambda handlers and the cost-tracking table                         *)
(*                                                                         *)
(* app.py, _create_dynamodb_table: the table's key is (account_id,         *)
(* timestamp); put_item replaces the item that has the key of the new one. *)
(* Every invocation reads the wall clock of the host it runs on: within    *)
(* one invocation a later reading is larger (a put_item lies between two   *)
(* readings), the readings of two invocations are not related.             *)
(***************************************************************************)
\* The largest clock reading.
MaxClock == 2
\* At most this many handler invocations (evaluation cycles) in one run.
MaxCycles == 2
\* The budget-alert invocations that may be in flight together.
NumBudgetInvocations == 2

BudgetInvocations == 1..NumBudgetInvocations

\* handler: "123456789012" when there is no context, else the account of
\* the function's ARN.
DEFAULT_ACCOUNT == "123456789012"
Accounts == {DEFAULT_ACCOUNT, "210987654321"}

\* Mutant: the key of the table is the timestamp alone.
SameKeyIgnoringAccount(x, y) == x.timestamp = y.timestamp

SameKey(x, y) == x.account_id = y.account_id /\ x.timestamp = y.timestamp

\* Mutant: put_item adds the item and keeps what the table holds.
PutItemAppending(tbl, item) == tbl \cup {item}

\* table.put_item(Item=item)
PutItem(tbl, item) == {x \in tbl : ~SameKey(x, item)} \cup {item}

\* get_current_month_costs: the mock data returned when Cost Explorer fails.
MockCurrentCosts ==
    <<[service |-> EC2, cost |-> 550], [service |-> S3, cost |-> 230],
      [service |-> RDS, cost |-> 875], [service |-> EKS, cost |-> 1240]>>

\* What Cost Explorer may report for the current month.
CurrentCostResponses ==
    {<<>>, <<[service |-> EC2, cost |-> 2001]>>,
     <<[service |-> EC2, cost |-> 12550], [service |-> RDS, cost |-> 8575]>>}

\* get_cost_data_for_analysis: the mock data returned when Cost Explorer fails.
MockCostData ==
    <<[Total |-> 4550,
       Groups |-> <<[Keys |-> <<EC2>>, Amount |-> 2530], [Keys |-> <<RDS>>, Amount |-> 1275],
                    [Keys |-> <<S3>>, Amount |-> 345], [Keys |-> <<EKS>>, Amount |-> 400]>>]>>

\* What Cost Explorer may report for the last 30 days.
CostDataResponses ==
    {<<>>, <<[Total |-> 2500, Groups |-> <<[Keys |-> <<EC2>>, Amount |-> 2000]>>]>>,
     <<[Total |-> 2530, Groups |-> <<[Keys |-> <<EC2>>, Amount |-> 2530]>>]>>}

\* store_alert: alert_record.  cycle and seq are not attributes of the code's
\* record: they name the invocation that wrote the item and the place of
\* the alert in its list.  processed_at, a second clock reading, is left out.
alert_record(alert, account_id, now, cycle, seq) ==
    [account_id   |-> account_id,
     timestamp    |-> <<"datetime", now>>,
     alert_type   |-> alert.type,
     service      |-> alert.service,
     current_cost |-> alert.current_cost,
     budget_limit |-> alert.budget_limit,
     message      |-> alert.message,
     cycle        |-> cycle,
     seq          |-> seq]

\* Decimal(str(recommendation['potential_savings'])): the text must be a
\* number; a leading dollar sign raises decimal.InvalidOperation.
IsDecimalText(text) == text[1] = ""

\* The clock is read in ticks; this many ticks make a second.
TicksPerSecond == 2

\* int(datetime.now().timestamp()): the second of a clock reading.
SecondOf(now) == now \div TicksPerSecond

\* Mutant: the recommendation_id is made of the second alone.
recommendation_record_WithoutIndex(rec, account_id, now, cycle, seq) ==
    [account_id        |-> account_id,
     timestamp         |-> <<"datetime", now>>,
     recommendation_id |-> <<"rec", 0, SecondOf(now)>>,
     service           |-> rec.service,
     priority          |-> rec.priority,
     category          |-> rec.category,
     potential_savings |-> rec.potential_savings[2],
     cycle             |-> cycle,
     seq               |-> seq]

\* store_recommendations: record.  recommendation_id is
\* f"rec_{i}_{int(datetime.now().timestamp())}", the index of the
\* recommendation in the list and the second of the clock.
recommendation_record(rec, account_id, now, cycle, seq) ==
    [account_id        |-> account_id,
     timestamp         |-> <<"datetime", now>>,
     recommendation_id |-> <<"rec", seq - 1, SecondOf(now)>>,
     service           |-> rec.service,
     priority          |-> rec.priority,
     category          |-> rec.category,
     potential_savings |-> rec.potential_savings[2],
     cycle             |-> cycle,
     seq               |-> seq]

BudgetIdle ==
    [pc |-> "idle", account |-> DEFAULT_ACCOUNT, cycle |-> 0, costs |-> <<>>,
     alerts |-> <<>>, sent |-> 0, now |-> -1, fallback |-> FALSE]

OptimizerIdle ==
    [pc |-> "idle", account |-> DEFAULT_ACCOUNT, cycle |-> 0,
     recs |-> <<>>, stored |-> 0, now |-> -1, fallback |-> FALSE]

Init ==
    /\ table = {}
    /\ cycles = 0
    /\ log = {}
    /\ ba = [i \in BudgetInvocations |-> BudgetIdle]
    /\ co = OptimizerIdle
    /\ evCosts = <<>> /\ evLimits = CodeLimits /\ evAlerts = <<>> /\ evPc = "ret"
    /\ genData = <<>> /\ genUp = {} /\ genRecs = <<>> /\ genPc = "ret"
    /\ rows = <<>> /\ reply = NoReply
    /\ budget_alerts = <<>> /\ hour = 0

\* The entry of a finished cycle in the history: what it generated, what it
\* returned, whether it worked on the mock data of a failed Cost Explorer
\* call, and whether the table refused one of its writes.
LogEntry(handler, inv, status) ==
    [handler |-> handler, cycle |-> inv.cycle, account |-> inv.account,
     generated |-> IF handler = "budget_alert" THEN Len(inv.alerts) ELSE Len(inv.recs),
     statusCode |-> status, fallback |-> inv.fallback, refused |-> FALSE, keys |-> {}]

\* budget_alert.handler up to the first store_alert: get_current_month_costs
\* (Cost Explorer's answer, or the mock data when the call fails),
\* check_budget_thresholds, the account of the context, and the return when
\* there is nothing to send.
BudgetInvoke(i) ==
    /\ ba[i].pc = "idle"
    /\ cycles < MaxCycles
    /\ cycles' = cycles + 1
    /\ \E account \in Accounts, ceFails \in BOOLEAN, response \in CurrentCostResponses :
        LET current_costs == IF ceFails THEN MockCurrentCosts ELSE response
            alerts == check_budget_thresholds(current_costs)
            inv == [pc |-> "send", account |-> account, cycle |-> cycles + 1,
                    costs |-> current_costs, alerts |-> alerts, sent |-> 0, now |-> -1,
                    fallback |-> ceFails]
        IN  /\ ceFails => response = <<>>
            /\ ba' = [ba EXCEPT ![i] = IF alerts # <<>> THEN inv ELSE BudgetIdle]
            /\ log' = IF alerts # <<>> THEN log
                      ELSE log \cup {LogEntry("budget_alert", inv, 200)}
    /\ UNCHANGED <<buVars, table, co, evVars, genVars, beVars>>

\* send_alerts, one turn of its loop: store_alert builds the record with the
\* clock's reading and put_item stores it; after the last alert the handler
\* returns 200.
BudgetStoreAlert(i) ==
    /\ ba[i].pc = "send"
    /\ LET inv == ba[i]
           seq == inv.sent + 1
           last == seq = Len(inv.alerts)
       IN  \E now \in (inv.now + 1)..(MaxClock - (Len(inv.alerts) - seq)) :
            /\ table' = PutItem(table,
                    alert_record(inv.alerts[seq], inv.account, now, inv.cycle, seq))
            /\ ba' = [ba EXCEPT ![i] = IF last THEN BudgetIdle
                                       ELSE [inv EXCEPT !.sent = seq, !.now = now]]
            /\ log' = IF last THEN log \cup {LogEntry("budget_alert", inv, 200)} ELSE log
    /\ UNCHANGED <<buVars, cycles, co, evVars, genVars, beVars>>

\* send_alerts, put_item raises (the table cannot be written): the exception
\* leaves the loop and the handler returns 500.
BudgetStoreFails(i) ==
    /\ ba[i].pc = "send"
    /\ ba' = [ba EXCEPT ![i] = BudgetIdle]
    /\ log' = log \cup {[LogEntry("budget_alert", ba[i], 500) EXCEPT !.refused = TRUE]}
    /\ UNCHANGED <<buVars, table, cycles, co, evVars, genVars, beVars>>

\* cost_optimizer.handler up to store_recommendations:
\* get_cost_data_for_analysis (Cost Explorer's answer, or the mock data when
\* the call fails), generate_recommendations, the account of the context;
\* with nothing to store, store_recommendations does nothing and the
\* handler returns 200.
OptimizerInvoke ==
    /\ co.pc = "idle"
    /\ cycles < MaxCycles
    /\ cycles' = cycles + 1
    /\ \E account \in Accounts, ceFails \in BOOLEAN, response \in CostDataResponses :
        LET cost_data == IF ceFails THEN MockCostData ELSE response
        IN  \E up \in SUBSET TieCategories(cost_data) :
            LET recs == generate_recommendations(cost_data, up)
                inv == [pc |-> "store", account |-> account, cycle |-> cycles + 1,
                        recs |-> recs, stored |-> 0, now |-> -1, fallback |-> ceFails]
            IN  /\ ceFails => response = <<>>
                /\ co' = IF recs # <<>> THEN inv ELSE OptimizerIdle
                /\ log' = IF recs # <<>> THEN log
                          ELSE log \cup {LogEntry("cost_optimizer", inv, 200)}
    /\ UNCHANGED <<buVars, table, ba, evVars, genVars, beVars>>

\* store_recommendations, one turn of its loop: the record is built, which
\* raises when potential_savings is no decimal number, and put_item stores
\* it or raises; an exception makes the handler return 500, the end of the
\* loop 200.  The clock does not go back; two turns may read the same tick.
OptimizerStore ==
    /\ co.pc = "store"
    /\ LET seq == co.stored + 1
           last == seq = Len(co.recs)
       IN  IF ~IsDecimalText(co.recs[seq].potential_savings)
           THEN /\ co' = OptimizerIdle
                /\ log' = log \cup {LogEntry("cost_optimizer", co, 500)}
                /\ UNCHANGED table
           ELSE \E now \in (IF co.now < 0 THEN 0 ELSE co.now)..MaxClock, written \in BOOLEAN :
                IF written
                THEN /\ table' = PutItem(table,
                            recommendation_record(co.recs[seq], co.account, now, co.cycle, seq))
                     /\ co' = IF last THEN OptimizerIdle
                              ELSE [co EXCEPT !.stored = seq, !.now = now]
                     /\ log' = IF last THEN log \cup {LogEntry("cost_optimizer", co, 200)}
                               ELSE log
                ELSE /\ co' = OptimizerIdle
                     /\ log' = log \cup {[LogEntry("cost_optimizer", co, 500)
                                             EXCEPT !.refused = TRUE]}
                     /\ UNCHANGED table
    /\ UNCHANGED <<buVars, cycles, ba, evVars, genVars, beVars>>

(***************************************************************************)
(* cost_processor: the ingestion of cost records into the table            *)
(***************************************************************************)
\* get_cost_data: the mock data returned when Cost Explorer fails, one
\* result for start_date with a total of 0.00 and no groups.
MockProcessorData(start_date) ==
    <<[Start |-> start_date, Total |-> 0, Groups |-> <<>>]>>

\* What Cost Explorer may report for the last 7 days: nothing, one day
\* with two services, two days without groups, one day with one service.
ProcessorResponses ==
    {<<>>,
     <<[Start |-> 1, Total |-> 2550,
        Groups |-> <<[Keys |-> <<EC2>>, Amount |-> 1530], [Keys |-> <<S3>>, Amount |-> 1020]>>]>>,
     <<[Start |-> 1, Total |-> 2550, Groups |-> <<>>],
       [Start |-> 2, Total |-> 1020, Groups |-> <<>>]>>,
     <<[Start |-> 2, Total |-> 1530,
        Groups |-> <<[Keys |-> <<EC2>>, Amount |-> 1530]>>]>>}

\* process_cost_data, the records of one result: one for each group and
\* the daily total record.
ResultRecords(result, account_id) ==
    [k \in 1..(Len(result.Groups) + 1) |->
        IF k <= Len(result.Groups)
        THEN [account_id       |-> account_id,
              timestamp        |-> <<"date", result.Start>>,
              service          |-> result.Groups[k].Keys[1],
              cost             |-> result.Groups[k].Amount,
              total_daily_cost |-> result.Total]
        ELSE [account_id       |-> account_id,
              timestamp        |-> <<"date", result.Start>>,
              service          |-> "TOTAL",
              cost             |-> result.Total,
              total_daily_cost |-> result.Total]]

\* process_cost_data
RECURSIVE process_cost_data(_, _)
process_cost_data(cost_data, account_id) ==
    IF cost_data = <<>> THEN <<>>
    ELSE ResultRecords(Head(cost_data), account_id)
         \o process_cost_data(Tail(cost_data), account_id)

\* Whether two of the records have the key of the table in common.
HasDuplicateKeys(records) ==
    \E i, j \in DOMAIN records : i < j /\ SameKey(records[i], records[j])

\* batch.put_item for each record in turn.  cycle and seq name the
\* invocation that wrote the item and the place of the record in its list.
RECURSIVE PutAll(_, _, _, _)
PutAll(tbl, records, cycle, seq) ==
    IF seq > Len(records) THEN tbl
    ELSE PutAll(PutItem(tbl, [account_id       |-> records[seq].account_id,
                              timestamp        |-> records[seq].timestamp,
                              service          |-> records[seq].service,
                              cost             |-> records[seq].cost,
                              total_daily_cost |-> records[seq].total_daily_cost,
                              cycle            |-> cycle,
                              seq              |-> seq]),
                records, cycle, seq + 1)

\* cost_processor.handler: get_cost_data (Cost Explorer's answer, or the
\* mock data when the call fails), process_cost_data and store_cost_data.
\* The records go to the table in one batch.  A batch that holds two
\* records of the same key is either refused by the table, which raises
\* and makes the handler return 500, or written record by record, the later
\* record replacing the earlier one.  The copy of the raw data that goes
\* to S3 is left out.
ProcessorInvoke ==
    /\ cycles < MaxCycles
    /\ cycles' = cycles + 1
    /\ \E account \in Accounts, ceFails \in BOOLEAN, response \in ProcessorResponses,
          refused \in BOOLEAN :
        LET cost_data == IF ceFails THEN MockProcessorData(1) ELSE response
            records   == process_cost_data(cost_data, account)
            entry     == [handler |-> "cost_processor", cycle |-> cycles + 1,
                          account |-> account, generated |-> Len(records),
                          statusCode |-> IF refused THEN 500 ELSE 200,
                          fallback |-> ceFails, refused |-> refused,
                          keys |-> {<<records[k].timestamp, records[k].service>> :
                                        k \in DOMAIN records}]
        IN  /\ ceFails => response = <<>>
            /\ refused => HasDuplicateKeys(records)
            /\ table' = IF refused THEN table ELSE PutAll(table, records, cycles + 1, 1)
            /\ log' = log \cup {entry}
    /\ UNCHANGED <<buVars, ba, co, evVars, genVars, beVars>>

Next ==
    \/ \E i \in BudgetInvocations : BudgetInvoke(i)
    \/ \E i \in BudgetInvocations : BudgetStoreAlert(i)
    \/ \E i \in BudgetInvocations : BudgetStoreFails(i)
    \/ OptimizerInvoke
    \/ OptimizerStore
    \/ ProcessorInvoke

Spec == Init /\ [][Next]_vars

(***************************************************************************)
(* store_recommendations called with a list of recommendations of the      *)
(* caller's making, whose potential_savings may be a plain decimal number  *)
(* ('7.59') or a dollar amount ('$7.59')                                   *)
(***************************************************************************)
\* At most this many recommendations in one list.
MaxStored == 2

\* The recommendations of a list: two categories, each with a plain
\* decimal number or with a dollar amount.
StoreChoices ==
    {[service |-> "EC2", priority |-> "HIGH", category |-> c,
      potential_savings |-> <<sign, 759>>] :
        c \in {"RIGHT_SIZING", "RESERVED_INSTANCES"}, sign \in {"", "$"}}

StoreInputs == UNION {[1..k -> StoreChoices] : k \in 1..MaxStored}

InitStore ==
    /\ table = {}
    /\ cycles = 0
    /\ log = {}
    /\ ba = [i \in BudgetInvocations |-> BudgetIdle]
    /\ co = OptimizerIdle
    /\ evCosts = <<>> /\ evLimits = CodeLimits /\ evAlerts = <<>> /\ evPc = "ret"
    /\ genData = <<>> /\ genUp = {} /\ genRecs = <<>> /\ genPc = "ret"
    /\ rows = <<>> /\ reply = NoReply
    /\ budget_alerts = <<>> /\ hour = 0

\* store_recommendations(recommendations, account_id) is entered.
StoreCall ==
    /\ co.pc = "idle"
    /\ cycles < MaxCycles
    /\ cycles' = cycles + 1
    /\ \E account \in Accounts, recs \in StoreInputs :
        co' = [pc |-> "store", account |-> account, cycle |-> cycles + 1,
               recs |-> recs, stored |-> 0, now |-> -1, fallback |-> FALSE]
    /\ UNCHANGED <<buVars, table, log, ba, evVars, genVars, beVars>>

NextStore ==
    \/ StoreCall
    \/ OptimizerStore

SpecStore == InitStore /\ [][NextStore]_vars

(***************************************************************************)
(* The backend: CostService over the rows of the cost_data table           *)
(*                                                                         *)
(* In this part money is held in mills (thousandths of a dollar): a cost   *)
(* column is a float and holds fractions of a cent.  round(x, 2) gives     *)
(* cents; a value exactly halfway between two cents goes to either         *)
(* neighbour, as the floating-point error of the value decides.  A date    *)
(* (a 'YYYY-MM-DD' string, compared as text) is the number of its day.     *)
(***************************************************************************)
\* datetime.now(): the day on which the queries are made.
Today == 40

\* The account of the sample rows and a second account.
BackendAccounts == {"123456789012", "210987654321"}

\* The name of the k-th service.
ServiceName(k) == <<"service", k>>

\* CostData(account_id=..., timestamp=..., service=..., cost=...,
\* total_daily_cost=...) and db.add: the row gets the next id.
AddRow(rs, account_id, timestamp, service, cost, total_daily_cost) ==
    Append(rs, [id               |-> Len(rs) + 1,
                account_id       |-> account_id,
                timestamp        |-> timestamp,
                service          |-> service,
                cost             |-> cost,
                total_daily_cost |-> total_daily_cost])

\* Mutant: the quotient is cut, not rounded.
RoundDivTruncating(n, d, up) == n \div d

\* The quotient n / d rounded to the nearest integer; halfway between two
\* integers it is the upper one when up holds, else the lower one.
RoundDiv(n, d, up) ==
    LET q == n \div d
        r == n % d
    IN  IF 2 * r > d \/ (2 * r = d /\ up) THEN q + 1 ELSE q

\* Whether n / d lies exactly halfway between two integers.
IsHalfway(n, d) == 2 * (n % d) = d

\* round() of the quotient n / d.  up holds the quotients, as pairs, that
\* go to the upper neighbour when they lie halfway: what round() gives
\* depends on the value alone.
Rounded(n, d, up) == RoundDiv(n, d, <<n, d>> \in up)

\* The filter of every query: timestamp >= start_date and timestamp <= end_date
\* with end_date = now and start_date = now - days.
InPeriod(row, days) == row.timestamp >= Today - days /\ row.timestamp <= Today

Period(rs, days) ==
    LET Match(row) == InPeriod(row, days) IN SelectSeq(rs, Match)

\* func.sum(CostData.cost)
RECURSIVE SumOfCost(_)
SumOfCost(rs) == IF rs = <<>> THEN 0 ELSE Head(rs).cost + SumOfCost(Tail(rs))

\* The rows of one day, of one service.
OfDay(rs, day) == LET Match(row) == row.timestamp = day IN SelectSeq(rs, Match)
OfService(rs, service) == LET Match(row) == row.service = service IN SelectSeq(rs, Match)

\* order_by(CostData.timestamp): the days of a set in ascending order.
RECURSIVE Ascending(_)
Ascending(days) ==
    IF days = {} THEN <<>>
    ELSE LET least == CHOOSE d \in days : \A e \in days : d <= e
         IN  <<least>> \o Ascending(days \ {least})

\* get_cost_trends: daily_costs, the query grouped by timestamp and ordered
\* by it, and daily_data, its costs rounded to cents.
DailyData(rs, days, up) ==
    LET matching == Period(rs, days)
        dates == Ascending({matching[i].timestamp : i \in DOMAIN matching})
    IN  [k \in DOMAIN dates |->
            [date |-> dates[k],
             cost |-> Rounded(SumOfCost(OfDay(matching, dates[k])), 10, up)]]

\* sum(day["cost"] for day in week)
RECURSIVE SumOfDays(_)
SumOfDays(week) == IF week = <<>> THEN 0 ELSE Head(week).cost + SumOfDays(Tail(week))

\* daily_data[-7:]
RecentWeek(daily_data) ==
    SubSeq(daily_data, Len(daily_data) - 6, Len(daily_data))

\* daily_data[-14:-7] if len(daily_data) >= 14 else daily_data[:-7]
PreviousWeek(daily_data) ==
    IF Len(daily_data) >= 14
    THEN SubSeq(daily_data, Len(daily_data) - 13, Len(daily_data) - 7)
    ELSE SubSeq(daily_data, 1, Len(daily_data) - 7)

\* len(daily_data) >= 7
EnoughDays(daily_data) == Len(daily_data) >= 7

\* Mutant: equal averages count as increasing.
IsIncreasingOrEqual(recent_week, previous_week) ==
    SumOfDays(recent_week) * Len(previous_week) >= SumOfDays(previous_week) * Len(recent_week)

\* recent_avg > previous_avg, the averages being the sums over the lengths.
IsIncreasing(recent_week, previous_week) ==
    SumOfDays(recent_week) * Len(previous_week) > SumOfDays(previous_week) * Len(recent_week)

\* |recent_avg - previous_avg| * 100 * 100 as a fraction: numerator and
\* denominator of the percentage in hundredths of a percent.
TrendNumerator(recent_week, previous_week) ==
    LET d == SumOfDays(recent_week) * Len(previous_week)
             - SumOfDays(previous_week) * Len(recent_week)
    IN  10000 * (IF d < 0 THEN -d ELSE d)

TrendDenominator(recent_week, previous_week) ==
    SumOfDays(previous_week) * Len(recent_week)

\* Mutant: too few days are reported as a falling trend.
InsufficientDataAsDecreasing(daily_data, days) ==
    [kind |-> "trends", status_code |-> 200, daily_costs |-> daily_data,
     trend_direction |-> "decreasing", trend_percentage |-> 0, period_days |-> days]

\* The else branch: trend_direction = "insufficient_data", trend_percentage = 0.
InsufficientData(daily_data, days) ==
    [kind |-> "trends", status_code |-> 200, daily_costs |-> daily_data,
     trend_direction |-> "insufficient_data", trend_percentage |-> 0, period_days |-> days]

\* get_cost_trends and the router around it.  The answer is the response
\* of the router: 200 with the trends, or 500 when the service raises
\* (the division by len(previous_week) when that is empty).
\* trend_percentage is in hundredths of a percent.
get_cost_trends(rs, days, up) ==
    LET daily_data == DailyData(rs, days, up)
    IN  IF EnoughDays(daily_data)
        THEN LET recent_week   == RecentWeek(daily_data)
                 previous_week == PreviousWeek(daily_data)
             IN  IF Len(previous_week) = 0
                 THEN [kind |-> "trends", status_code |-> 500,
                       detail |-> "division by zero", period_days |-> days,
                       entries |-> Len(daily_data)]
                 ELSE [kind |-> "trends", status_code |-> 200,
                       daily_costs |-> daily_data,
                       trend_direction |->
                           IF IsIncreasing(recent_week, previous_week)
                           THEN "increasing" ELSE "decreasing",
                       trend_percentage |->
                           IF SumOfDays(previous_week) > 0
                           THEN Rounded(TrendNumerator(recent_week, previous_week),
                                        TrendDenominator(recent_week, previous_week), up)
                           ELSE 0,
                       period_days |-> days]
        ELSE InsufficientData(daily_data, days)

\* The quotients get_cost_trends rounds that lie halfway: daily costs, and
\* the percentage over the daily costs however those were rounded.
TrendTies(rs, days) ==
    LET matching == Period(rs, days)
        dates == {matching[i].timestamp : i \in DOMAIN matching}
        costs == {<<SumOfCost(OfDay(matching, d)), 10>> : d \in dates}
        Pair(daily_data) ==
            IF EnoughDays(daily_data) /\ SumOfDays(PreviousWeek(daily_data)) > 0
            THEN {<<TrendNumerator(RecentWeek(daily_data), PreviousWeek(daily_data)),
                    TrendDenominator(RecentWeek(daily_data), PreviousWeek(daily_data))>>}
            ELSE {}
        halves == {q \in costs : IsHalfway(q[1], q[2])}
    IN  halves \cup {q \in UNION {Pair(DailyData(rs, days, u)) : u \in SUBSET halves} :
                        IsHalfway(q[1], q[2])}

(***************************************************************************)
(* The trend over the sample rows: insert_sample_data adds a row for today *)
(* and for each day before it; get_cost_trends is asked at any time.       *)
(***************************************************************************)
\* The most days that have a row.
MaxDays == 14

\* The cost of a day's row, in mills: nothing or 10 dollars.
DayCosts == {0, 10000}

\* days: int = Query(30, ge=7, le=365)
TrendDays == {7, 13, 30}

InitTrend ==
    /\ rows = <<>>
    /\ reply = NoReply
    /\ budget_alerts = <<>> /\ hour = 0
    /\ evCosts = <<>> /\ evLimits = CodeLimits /\ evAlerts = <<>> /\ evPc = "ret"
    /\ genData = <<>> /\ genUp = {} /\ genRecs = <<>> /\ genPc = "ret"
    /\ table = {} /\ cycles = 0 /\ log = {} /\ ba = <<>> /\ co = <<>>

\* insert_sample_data, one turn of its loop over the days: the row of the
\* day i days before today.
InsertDay ==
    /\ Len(rows) < MaxDays
    /\ \E cost \in DayCosts :
        rows' = AddRow(rows, "123456789012", Today - Len(rows), ServiceName(1), cost, cost)
    /\ reply' = NoReply
    /\ UNCHANGED <<buVars, evVars, genVars, lamVars>>

\* GET /trends
GetCostTrends ==
    /\ \E days \in TrendDays : \E up \in SUBSET TrendTies(rows, days) :
        reply' = get_cost_trends(rows, days, up)
    /\ UNCHANGED <<buVars, rows, evVars, genVars, lamVars>>

NextTrend ==
    \/ InsertDay
    \/ GetCostTrends

SpecTrend == InitTrend /\ [][NextTrend]_vars

(***************************************************************************)
(* get_cost_summary and get_services_breakdown                             *)
(***************************************************************************)
\* Mutant: a cost is rounded up to the next cent.
RoundToCentsUp(x, up) == (x + 9) \div 10

\* round(x, 2) of a cost in mills: the cost in cents.
RoundToCents(x, up) == Rounded(x, 10, up)

\* The services that have a row.
ServicesOf(rs) == {rs[i].service : i \in DOMAIN rs}

\* func.sum(CostData.cost) of one group of group_by(CostData.service)
GroupTotal(rs, service) == SumOfCost(OfService(rs, service))

\* round(total_cost / days if days > 0 else 0, 2)
DailyAverage(total_cost, days, up) ==
    IF days > 0 THEN Rounded(total_cost, 10 * days, up) ELSE 0

\* round((item.total_cost / total_cost * 100) if total_cost > 0 else 0, 2),
\* in hundredths of a percent.
Percentage(item_cost, total_cost, up) ==
    IF total_cost > 0 THEN Rounded(10000 * item_cost, total_cost, up) ELSE 0

\* recent_cost: the rows from recent_start = now - 7 days to now.
RecentCost(rs) ==
    LET IsRecent(row) == row.timestamp >= Today - 7 /\ row.timestamp <= Today
    IN  SumOfCost(SelectSeq(rs, IsRecent))

\* previous_cost: the rows from previous_start = recent_start - 7 days up to
\* but without recent_start.
PreviousCost(rs) ==
    LET IsPrevious(row) == row.timestamp >= Today - 14 /\ row.timestamp < Today - 7
    IN  SumOfCost(SelectSeq(rs, IsPrevious))

\* get_cost_summary, the trend of the last 7 days against the 7 days before
\* them: a signed percentage, in hundredths of a percent; 0 for a period
\* of fewer than 14 days and for a previous week without cost.
SummaryTrend(rs, days, up) ==
    IF days >= 14 /\ PreviousCost(rs) > 0
    THEN Rounded(10000 * (RecentCost(rs) - PreviousCost(rs)), PreviousCost(rs), up)
    ELSE 0

\* get_cost_summary and the router around it.  order is the order in which
\* the database returns the groups of the query, which has no order_by.
get_cost_summary(rs, days, order, up) ==
    LET matching   == Period(rs, days)
        total_cost == SumOfCost(matching)
    IN  [kind              |-> "summary",
         status_code       |-> 200,
         total_cost        |-> RoundToCents(total_cost, up),
         daily_average     |-> DailyAverage(total_cost, days, up),
         period_days       |-> days,
         trend_percentage  |-> SummaryTrend(rs, days, up),
         service_breakdown |->
            [k \in DOMAIN order |->
                LET item_cost == GroupTotal(matching, order[k])
                IN  [service    |-> order[k],
                     total_cost |-> RoundToCents(item_cost, up),
                     percentage |-> Percentage(item_cost, total_cost, up)]]]

\* get_services_breakdown and the router around it.  order is the order of
\* the groups, descending by total_cost.
get_services_breakdown(rs, days, order, up) ==
    LET matching   == Period(rs, days)
        total_cost == SumOfCost(matching)
    IN  [kind        |-> "services",
         status_code |-> 200,
         period_days |-> days,
         services    |->
            [k \in DOMAIN order |->
                LET item_cost == GroupTotal(matching, order[k])
                    count     == Len(OfService(matching, order[k]))
                IN  [service      |-> order[k],
                     total_cost   |-> RoundToCents(item_cost, up),
                     average_cost |-> Rounded(item_cost, 10 * count, up),
                     record_count |-> count,
                     percentage   |-> Percentage(item_cost, total_cost, up)]]]

\* The quotients the two queries round that lie halfway.
SummaryTies(rs, days) ==
    LET matching   == Period(rs, days)
        total_cost == SumOfCost(matching)
        services   == ServicesOf(matching)
        quotients  ==
            {<<GroupTotal(matching, s), 10>> : s \in services}
            \cup {<<10000 * GroupTotal(matching, s), total_cost>> : s \in {x \in services : total_cost > 0}}
            \cup {<<GroupTotal(matching, s), 10 * Len(OfService(matching, s))>> : s \in services}
            \cup {<<total_cost, 10>>}
            \cup (IF days > 0 THEN {<<total_cost, 10 * days>>} ELSE {})
            \cup (IF days >= 14 /\ PreviousCost(rs) > 0
                  THEN {<<10000 * (RecentCost(rs) - PreviousCost(rs)), PreviousCost(rs)>>}
                  ELSE {})
    IN  {q \in quotients : IsHalfway(q[1], q[2])}

\* The services of a set by their numbers, ascending.
RECURSIVE ByNumber(_)
ByNumber(services) ==
    IF services = {} THEN <<>>
    ELSE LET least == CHOOSE s \in services : \A x \in services : s[2] <= x[2]
         IN  <<least>> \o ByNumber(services \ {least})

Reversed(seq) == [k \in DOMAIN seq |-> seq[Len(seq) + 1 - k]]

\* All the orders of a set of services.
AllOrders(services) ==
    {order \in [1..Cardinality(services) -> services] :
        \A s \in services : \E k \in DOMAIN order : order[k] = s}

\* order_by(desc('total_cost')): the groups with the larger cost first.
IsDescending(rs, days, order) ==
    \A k \in 1..(Len(order) - 1) :
        GroupTotal(Period(rs, days), order[k]) >= GroupTotal(Period(rs, days), order[k + 1])

(***************************************************************************)
(* The queries over a few rows of two accounts                             *)
(***************************************************************************)
\* The most rows of the table.
MaxRows == 2

\* The days of the rows: today, yesterday, and a day of the week before.
RowDays == {Today, Today - 1, Today - 8}

\* The services of the rows.
RowServices == {ServiceName(1), ServiceName(2)}

\* cost=round(random.uniform(5, 50), 2), in mills.
RowCosts == {10000, 50000}

\* total_daily_cost=round(random.uniform(100, 500), 2), in mills.
RowTotalDailyCosts == {100000, 150000}

\* days: int = Query(30, ge=1, le=365)
SummaryDays == {1, 14}

InitSummary ==
    /\ rows = <<>>
    /\ reply = NoReply
    /\ budget_alerts = <<>> /\ hour = 0
    /\ evCosts = <<>> /\ evLimits = CodeLimits /\ evAlerts = <<>> /\ evPc = "ret"
    /\ genData = <<>> /\ genUp = {} /\ genRecs = <<>> /\ genPc = "ret"
    /\ table = {} /\ cycles = 0 /\ log = {} /\ ba = <<>> /\ co = <<>>

\* A row is added to cost_data: as insert_sample_data does it, for any of
\* the accounts.
InsertRecord ==
    /\ Len(rows) < MaxRows
    /\ \E account_id \in BackendAccounts, timestamp \in RowDays, service \in RowServices,
          cost \in RowCosts, total_daily_cost \in RowTotalDailyCosts :
        rows' = AddRow(rows, account_id, timestamp, service, cost, total_daily_cost)
    /\ reply' = NoReply
    /\ UNCHANGED <<buVars, evVars, genVars, lamVars>>

\* GET /summary
GetCostSummary ==
    /\ \E days \in SummaryDays :
       \E order \in AllOrders(ServicesOf(Period(rows, days))) :
       \E up \in SUBSET SummaryTies(rows, days) :
        reply' = get_cost_summary(rows, days, order, up)
    /\ UNCHANGED <<buVars, rows, evVars, genVars, lamVars>>

\* GET /services
GetServices ==
    /\ \E days \in SummaryDays :
       \E order \in {o \in AllOrders(ServicesOf(Period(rows, days))) : IsDescending(rows, days, o)} :
       \E up \in SUBSET SummaryTies(rows, days) :
        reply' = get_services_breakdown(rows, days, order, up)
    /\ UNCHANGED <<buVars, rows, evVars, genVars, lamVars>>

NextSummary ==
    \/ InsertRecord
    \/ GetCostSummary
    \/ GetServices
    \/ GetCostTrends

SpecSummary == InitSummary /\ [][NextSummary]_vars

(***************************************************************************)
(* The queries over many services: one row for each service, all of today  *)
(* and of one account.  The queries do not depend on the order of the      *)
(* rows, so the rows are added with the larger costs first.                *)
(***************************************************************************)
\* The most services that have a row.
MaxBreakdownServices == 23

\* The cost of a service, in mills: nothing, a tenth of a cent, 19.979
\* dollars.
BreakdownCosts == {0, 1, 19979}

\* days: int = Query(30, ge=1, le=365)
BreakdownDays == {30}

InitBreakdown ==
    /\ rows = <<>>
    /\ reply = NoReply
    /\ budget_alerts = <<>> /\ hour = 0
    /\ evCosts = <<>> /\ evLimits = CodeLimits /\ evAlerts = <<>> /\ evPc = "ret"
    /\ genData = <<>> /\ genUp = {} /\ genRecs = <<>> /\ genPc = "ret"
    /\ table = {} /\ cycles = 0 /\ log = {} /\ ba = <<>> /\ co = <<>>

\* A row for one more service is added to cost_data.
InsertService ==
    /\ Len(rows) < MaxBreakdownServices
    /\ \E cost \in BreakdownCosts :
        /\ rows # <<>> => cost <= rows[Len(rows)].cost
        /\ rows' = AddRow(rows, "123456789012", Today, ServiceName(Len(rows) + 1), cost, cost)
    /\ reply' = NoReply
    /\ UNCHANGED <<buVars, evVars, genVars, lamVars>>

\* GET /summary, the groups coming by the number of the service, ascending
\* or descending.
GetCostSummaryOfMany ==
    /\ \E days \in BreakdownDays :
       \E order \in {ByNumber(ServicesOf(Period(rows, days))),
                     Reversed(ByNumber(ServicesOf(Period(rows, days))))} :
       \E up \in SUBSET SummaryTies(rows, days) :
        reply' = get_cost_summary(rows, days, order, up)
    /\ UNCHANGED <<buVars, rows, evVars, genVars, lamVars>>

\* GET /services: the rows were added with the larger costs first, so the
\* order of the numbers is descending by cost.
GetServicesOfMany ==
    /\ \E days \in BreakdownDays :
       \E up \in SUBSET SummaryTies(rows, days) :
        reply' = get_services_breakdown(rows, days, ByNumber(ServicesOf(Period(rows, days))), up)
    /\ UNCHANGED <<buVars, rows, evVars, genVars, lamVars>>

NextBreakdown ==
    \/ InsertService
    \/ GetCostSummaryOfMany
    \/ GetServicesOfMany

SpecBreakdown == InitBreakdown /\ [][NextBreakdown]_vars

(***************************************************************************)
(* The backend: BudgetService over the rows of the budget_alerts table     *)
(*                                                                         *)
(* Time is counted in hours; hour 0 is a midnight.  created_at is set by   *)
(* the database when a row is added; it is taken on the same clock as      *)
(* datetime.now() of the service.                                          *)
(***************************************************************************)
HoursPerDay == 24

\* datetime.now().replace(hour=0, minute=0, second=0, microsecond=0)
Midnight(now) == now - (now % HoursPerDay)

\* BudgetAlert(**alert) and db.add: the row gets the next id, and
\* created_at by server_default=func.now().
AddAlert(alerts, account_id, alert_type, service, now) ==
    Append(alerts, [id         |-> Len(alerts) + 1,
                    account_id |-> account_id,
                    alert_type |-> alert_type,
                    service    |-> service,
                    created_at |-> now])

\* filter(BudgetAlert.created_at >= datetime.now().replace(hour=0, ...)).count()
RecentAlerts(alerts, now) ==
    Cardinality({i \in DOMAIN alerts : alerts[i].created_at >= Midnight(now)})

\* get_budget_summary and the router around it.  The two lists of counts
\* are given as sets of their entries.
get_budget_summary(alerts, now) ==
    [kind              |-> "budget_summary",
     status_code       |-> 200,
     total_alerts      |-> Len(alerts),
     recent_alerts     |-> RecentAlerts(alerts, now),
     alerts_by_type    |->
        {[type |-> t,
          count |-> Cardinality({i \in DOMAIN alerts : alerts[i].alert_type = t})] :
            t \in {alerts[i].alert_type : i \in DOMAIN alerts}},
     alerts_by_service |->
        {[service |-> s,
          count |-> Cardinality({i \in DOMAIN alerts : alerts[i].service = s})] :
            s \in {alerts[i].service : i \in DOMAIN alerts}}]

\* The most rows of budget_alerts.
MaxAlerts == 2

\* The last hour of the clock.
MaxHours == 48

\* The clock goes on by this many hours at a time.
StepHours == 6

\* alert_data of insert_sample_data: the type and the service of an alert.
SampleAlerts == {<<"BUDGET_EXCEEDED", "EC2">>, <<"SERVICE_BUDGET_EXCEEDED", "RDS">>}

InitBudget ==
    /\ budget_alerts = <<>>
    /\ hour = 0
    /\ rows = <<>> /\ reply = NoReply
    /\ evCosts = <<>> /\ evLimits = CodeLimits /\ evAlerts = <<>> /\ evPc = "ret"
    /\ genData = <<>> /\ genUp = {} /\ genRecs = <<>> /\ genPc = "ret"
    /\ table = {} /\ cycles = 0 /\ log = {} /\ ba = <<>> /\ co = <<>>

\* A row is added to budget_alerts, as insert_sample_data does it.
InsertAlert ==
    /\ Len(budget_alerts) < MaxAlerts
    /\ \E alert \in SampleAlerts :
        budget_alerts' = AddAlert(budget_alerts, "123456789012", alert[1], alert[2], hour)
    /\ reply' = NoReply
    /\ UNCHANGED <<hour, rows, evVars, genVars, lamVars>>

\* Time passes.
HoursPass ==
    /\ hour + StepHours <= MaxHours
    /\ hour' = hour + StepHours
    /\ reply' = NoReply
    /\ UNCHANGED <<budget_alerts, rows, evVars, genVars, lamVars>>

\* GET /summary of the budget router
GetBudgetSummary ==
    /\ reply' = get_budget_summary(budget_alerts, hour)
    /\ UNCHANGED <<buVars, rows, evVars, genVars, lamVars>>

NextBudget ==
    \/ InsertAlert
    \/ HoursPass
    \/ GetBudgetSummary

SpecBudget == InitBudget /\ [][NextBudget]_vars

(***************************************************************************)
(* Claims about check_budget_thresholds (BudgetEvaluator.Evaluate)         *)
(***************************************************************************)
\* The sum of the first n costs of a dict, whatever their services.
RECURSIVE SumFirst(_, _)
SumFirst(costs, n) == IF n = 0 THEN 0 ELSE costs[n].cost + SumFirst(costs, n - 1)

\* The positions of the alerts of one type and service in a list of alerts.
AlertsFor(alerts, type, service) ==
    {k \in DOMAIN alerts : alerts[k].type = type /\ alerts[k].service = service}

\* The positions of the alerts of one type.
AlertsOfType(alerts, type) == {k \in DOMAIN alerts : alerts[k].type = type}

\* C1: for every service with a budget of its own, a cost equal to the limit
\* gives no SERVICE_BUDGET_EXCEEDED alert for it and a cost one cent above the
\* limit gives exactly one (the comparison is a strict >).
Thm_C1_StrictServiceThreshold ==
    evPc = "ret" =>
        \A i \in DOMAIN evCosts :
            LET s == evCosts[i].service
                c == evCosts[i].cost
                n == Cardinality(AlertsFor(evAlerts, "SERVICE_BUDGET_EXCEEDED", s))
            IN  s \in DOMAIN CodeLimits.perService =>
                    /\ c = CodeLimits.perService[s] => n = 0
                    /\ c = CodeLimits.perService[s] + 1 => n = 1

\* C1 witness: one call with a service exactly at its limit (no alert) and
\* another one cent above its limit (one alert).
Wit_C1_AtAndAboveLimit ==
    /\ evPc = "ret"
    /\ \E i, j \in DOMAIN evCosts :
        /\ evCosts[i].service \in DOMAIN CodeLimits.perService
        /\ evCosts[j].service \in DOMAIN CodeLimits.perService
        /\ evCosts[i].cost = CodeLimits.perService[evCosts[i].service]
        /\ evCosts[j].cost = CodeLimits.perService[evCosts[j].service] + 1
        /\ AlertsFor(evAlerts, "SERVICE_BUDGET_EXCEEDED", evCosts[i].service) = {}
        /\ Cardinality(AlertsFor(evAlerts, "SERVICE_BUDGET_EXCEEDED", evCosts[j].service)) = 1

\* C2: there is exactly one BUDGET_EXCEEDED alert, for service TOTAL, if and
\* only if the sum of all costs is strictly above the total limit; it carries
\* that sum as current_cost and the total limit as budget_limit.
Thm_C2_TotalAlertIffSumAboveLimit ==
    evPc = "ret" =>
        LET total == SumFirst(evCosts, Len(evCosts))
            T     == AlertsOfType(evAlerts, "BUDGET_EXCEEDED") \cup
                     {k \in DOMAIN evAlerts : evAlerts[k].service = "TOTAL"}
        IN  /\ total > CodeLimits.total =>
                /\ Cardinality(T) = 1
                /\ \A k \in T : /\ evAlerts[k].type = "BUDGET_EXCEEDED"
                                /\ evAlerts[k].service = "TOTAL"
                                /\ evAlerts[k].current_cost = total
                                /\ evAlerts[k].budget_limit = CodeLimits.total
            /\ total <= CodeLimits.total => T = {}

\* C2 witness: a call whose costs sum to one cent more than the total limit
\* and that returned the TOTAL alert.
Wit_C2_TotalJustAbove ==
    /\ evPc = "ret"
    /\ Len(evCosts) > 1
    /\ SumFirst(evCosts, Len(evCosts)) = CodeLimits.total + 1
    /\ AlertsFor(evAlerts, "BUDGET_EXCEEDED", "TOTAL") # {}

\* C3: a service without a budget of its own never gets a
\* SERVICE_BUDGET_EXCEEDED alert, and its cost counts in the total that is
\* compared with the total limit and reported in the TOTAL alert.
Thm_C3_UnrecognizedOnlyInTotal ==
    evPc = "ret" =>
        \A i \in DOMAIN evCosts :
            evCosts[i].service \notin DOMAIN CodeLimits.perService =>
                LET total == SumFirst(evCosts, Len(evCosts))
                IN  /\ \A k \in DOMAIN evAlerts : evAlerts[k].service # evCosts[i].service
                    /\ (total > CodeLimits.total) = (AlertsFor(evAlerts, "BUDGET_EXCEEDED", "TOTAL") # {})
                    /\ \A k \in AlertsFor(evAlerts, "BUDGET_EXCEEDED", "TOTAL") :
                            evAlerts[k].current_cost = total

\* C3 witness: the total is above the limit only because of the service
\* without a budget, which is itself above every per-service limit, and the
\* only alert returned is the TOTAL one.
Wit_C3_UnrecognizedTipsTotal ==
    /\ evPc = "ret"
    /\ \E i \in DOMAIN evCosts :
        /\ evCosts[i].service = OTHER_SERVICE
        /\ evCosts[i].cost > 2500
        /\ SumFirst(evCosts, Len(evCosts)) > CodeLimits.total
        /\ SumFirst(evCosts, Len(evCosts)) - evCosts[i].cost <= CodeLimits.total
        /\ Len(evCosts) > 1
    /\ Len(evAlerts) = 1
    /\ evAlerts[1].service = "TOTAL"

\* The specification's algorithm of Evaluate with the limits as an argument:
\* the total first, then the services in the order of the dict.
RECURSIVE SpecServiceAlerts(_, _)
SpecServiceAlerts(costs, limits) ==
    IF costs = <<>> THEN <<>>
    ELSE LET s == Head(costs).service
             c == Head(costs).cost
         IN  (IF s \in DOMAIN limits.perService /\ c > limits.perService[s]
              THEN <<[type |-> "SERVICE_BUDGET_EXCEEDED", service |-> s,
                      current_cost |-> c, budget_limit |-> limits.perService[s]]>>
              ELSE <<>>)
             \o SpecServiceAlerts(Tail(costs), limits)

SpecEvaluateWith(costs, limits) ==
    LET total == SumFirst(costs, Len(costs))
    IN  (IF total > limits.total
         THEN <<[type |-> "BUDGET_EXCEEDED", service |-> "TOTAL",
                 current_cost |-> total, budget_limit |-> limits.total]>>
         ELSE <<>>)
        \o SpecServiceAlerts(costs, limits)

\* An alert without its message text.
AlertCore(a) ==
    [type |-> a.type, service |-> a.service,
     current_cost |-> a.current_cost, budget_limit |-> a.budget_limit]

AlertCores(alerts) == [k \in DOMAIN alerts |-> AlertCore(alerts[k])]

\* The scenario's costs: EC2 125.50 and RDS 85.75.
ScenarioCosts ==
    <<[service |-> EC2, cost |-> 12550], [service |-> RDS, cost |-> 8575]>>

RECURSIVE AmountsTo(_, _, _)
AmountsTo(groups, name, n) ==
    IF n = 0 THEN 0
    ELSE (IF groups[n].Keys = <<name>> THEN groups[n].Amount ELSE 0)
         + AmountsTo(groups, name, n - 1)

\* What a response reports for one service over its first n results.
RECURSIVE ReportedFor(_, _, _)
ReportedFor(cost_data, name, n) ==
    IF n = 0 THEN 0
    ELSE AmountsTo(cost_data[n].Groups, name, Len(cost_data[n].Groups))
         + ReportedFor(cost_data, name, n - 1)

\* The Total amounts of the first n results of a response.
RECURSIVE ReportedTotal(_, _)
ReportedTotal(cost_data, n) ==
    IF n = 0 THEN 0 ELSE cost_data[n].Total + ReportedTotal(cost_data, n - 1)

\* The categories of the recommendations for one service label, in order.
CategoriesFor(recs, label) ==
    LET IsFor(r) == r.service = label
        sel == SelectSeq(recs, IsFor)
    IN  [k \in DOMAIN sel |-> sel[k].category]

\* C7: each per-service rule fires if and only if that service's own cost is
\* strictly above its threshold, whatever the other services and the total
\* are: EC2 above 20 gives right-sizing and reserved-instances, RDS above 10
\* instance-optimization, S3 above 5 lifecycle-policies, EKS above 15
\* node-optimization; a cost equal to the threshold gives none.
Thm_C7_ServiceRulesFireAboveThreshold ==
    genPc = "ret" =>
        LET n == Len(genData)
        IN  /\ CategoriesFor(genRecs, "EC2") =
                  IF ReportedFor(genData, EC2, n) > 2000
                  THEN <<"RIGHT_SIZING", "RESERVED_INSTANCES">> ELSE <<>>
            /\ CategoriesFor(genRecs, "RDS") =
                  IF ReportedFor(genData, RDS, n) > 1000
                  THEN <<"INSTANCE_OPTIMIZATION">> ELSE <<>>
            /\ CategoriesFor(genRecs, "S3") =
                  IF ReportedFor(genData, S3, n) > 500
                  THEN <<"LIFECYCLE_POLICIES">> ELSE <<>>
            /\ CategoriesFor(genRecs, "EKS") =
                  IF ReportedFor(genData, EKS, n) > 1500
                  THEN <<"NODE_OPTIMIZATION">> ELSE <<>>

\* C7 witness: EC2 exactly at its threshold got nothing while another
\* service one cent above its own threshold got its recommendation.
Wit_C7_AtThresholdNoneAboveOne ==
    /\ genPc = "ret"
    /\ ReportedFor(genData, EC2, Len(genData)) = 2000
    /\ ReportedFor(genData, RDS, Len(genData)) = 1001
    /\ CategoriesFor(genRecs, "EC2") = <<>>
    /\ CategoriesFor(genRecs, "RDS") = <<"INSTANCE_OPTIMIZATION">>

\* C8: the two general recommendations (budget monitoring, cost allocation)
\* are given if and only if the total cost, the sum of the Total amounts of
\* the response, is above 50, whatever the per-service amounts are.
Thm_C8_GeneralRulesFireAboveFifty ==
    genPc = "ret" =>
        CategoriesFor(genRecs, "GENERAL") =
            IF ReportedTotal(genData, Len(genData)) > 5000
            THEN <<"BUDGET_MONITORING", "COST_ALLOCATION">> ELSE <<>>

\* C8 witness: a total of 50.01 with no service above its threshold gave
\* exactly the two general recommendations.
Wit_C8_GeneralOnlyJustAboveFifty ==
    /\ genPc = "ret"
    /\ ReportedTotal(genData, Len(genData)) = 5001
    /\ Len(genRecs) = 2
    /\ genRecs[1].category = "BUDGET_MONITORING"
    /\ genRecs[2].category = "COST_ALLOCATION"

\* The multiplier of each rule, in tenths.
MultiplierTenths ==
    [RIGHT_SIZING |-> 3, RESERVED_INSTANCES |-> 5, INSTANCE_OPTIMIZATION |-> 4,
     LIFECYCLE_POLICIES |-> 6, NODE_OPTIMIZATION |-> 7,
     BUDGET_MONITORING |-> 2, COST_ALLOCATION |-> 1]

\* The cost a recommendation was triggered by.
TriggeringCost(cost_data, rec) ==
    LET n == Len(cost_data)
    IN  CASE rec.service = "EC2" -> ReportedFor(cost_data, EC2, n)
          [] rec.service = "RDS" -> ReportedFor(cost_data, RDS, n)
          [] rec.service = "S3" -> ReportedFor(cost_data, S3, n)
          [] rec.service = "EKS" -> ReportedFor(cost_data, EKS, n)
          [] rec.service = "GENERAL" -> ReportedTotal(cost_data, n)

\* The scenario's response: one result, total 25.30, EC2 25.30.
ScenarioCostData ==
    <<[Total |-> 2530, Groups |-> <<[Keys |-> <<EC2>>, Amount |-> 2530]>>]>>

\* C9: the amount printed as potential savings is the rule's multiplier
\* times the triggering cost rounded to the nearest cent (at most half a
\* cent away from the product); EC2 25.30 with total 25.30 gives exactly two
\* recommendations, 7.59 and 12.65, and no general one.
Thm_C9_SavingsAreRoundedProduct ==
    genPc = "ret" =>
        /\ \A k \in DOMAIN genRecs :
            LET product == MultiplierTenths[genRecs[k].category]
                           * TriggeringCost(genData, genRecs[k])
                saved   == genRecs[k].potential_savings[2]
            IN  /\ 10 * saved - product <= 5
                /\ product - 10 * saved <= 5
        /\ genData = ScenarioCostData =>
            /\ Len(genRecs) = 2
            /\ genRecs[1].category = "RIGHT_SIZING"
            /\ genRecs[1].potential_savings[2] = 759
            /\ genRecs[2].category = "RESERVED_INSTANCES"
            /\ genRecs[2].potential_savings[2] = 1265

\* C9 witness: the scenario's response was analysed and gave two
\* recommendations.
Wit_C9_ScenarioGenerated ==
    /\ genPc = "ret"
    /\ genData = ScenarioCostData
    /\ Len(genRecs) = 2

\* The rule table's order.
RuleOrder ==
    <<"RIGHT_SIZING", "RESERVED_INSTANCES", "INSTANCE_OPTIMIZATION",
      "LIFECYCLE_POLICIES", "NODE_OPTIMIZATION", "BUDGET_MONITORING", "COST_ALLOCATION">>

Rank(category) == CHOOSE i \in DOMAIN RuleOrder : RuleOrder[i] = category

\* The orders in which the groups of one result may be listed.
GroupOrders(groups) ==
    {p \in [DOMAIN groups -> {groups[i] : i \in DOMAIN groups}] :
        \A i \in DOMAIN groups : \E j \in DOMAIN groups : p[j] = groups[i]}

\* The responses that differ from cost_data only in the order in which
\* the services are listed within the results.
Reorderings(cost_data) ==
    LET Candidates ==
            UNION {{[Total |-> cost_data[i].Total, Groups |-> p] :
                        p \in GroupOrders(cost_data[i].Groups)} : i \in DOMAIN cost_data}
    IN  {d \in [DOMAIN cost_data -> Candidates] :
            \A i \in DOMAIN cost_data :
                /\ d[i].Total = cost_data[i].Total
                /\ d[i].Groups \in GroupOrders(cost_data[i].Groups)}

\* C10: the recommendations are listed in rule-table order (EC2 right-sizing,
\* EC2 reserved instances, RDS, S3, EKS, then the general ones), and listing
\* the services of the input in another order gives the very same list.
Thm_C10_RuleTableOrder ==
    genPc = "ret" =>
        /\ \A i, j \in DOMAIN genRecs :
            i < j => Rank(genRecs[i].category) < Rank(genRecs[j].category)
        /\ \A d \in Reorderings(genData) :
            generate_recommendations(d, genUp) = genRecs

\* C10 witness: the input lists EKS before EC2 in one result, both above
\* their thresholds, and the list returned starts with EC2 and ends with EKS.
Wit_C10_InputOrderIgnored ==
    /\ genPc = "ret"
    /\ \E r \in DOMAIN genData :
        /\ Len(genData[r].Groups) = 2
        /\ genData[r].Groups[1].Keys = <<EKS>>
        /\ genData[r].Groups[2].Keys = <<EC2>>
    /\ Len(genRecs) = 3
    /\ genRecs[1].service = "EC2"
    /\ genRecs[3].service = "EKS"


(***************************************************************************)
(* Claims about the evaluation cycles and the table                        *)
(***************************************************************************)
\* The items of the table written by one cycle.
StoredBy(cycle) == {x \in table : x.cycle = cycle}

\* C5: every budget evaluation cycle that ended well holds in the table one
\* alert for each breach it found, whatever earlier or later cycles stored:
\* none of its alerts is suppressed, merged or overwritten.
Orig_C5_EveryCycleKeepsItsAlerts ==
    \A e \in log :
        (e.handler = "budget_alert" /\ e.statusCode = 200) =>
            Cardinality(StoredBy(e.cycle)) = e.generated

\* C6: once a cycle has ended, with 200 or with 500 after a failed write,
\* the table holds all of the alerts or recommendations the cycle generated
\* or none of them, never some of them.
Orig_C6_AllOrNothingPerCycle ==
    \A e \in log :
        e.handler \in {"budget_alert", "cost_optimizer"} =>
            \/ StoredBy(e.cycle) = {}
            \/ {x.seq : x \in StoredBy(e.cycle)} = 1..e.generated

(***************************************************************************)
(* Claims about get_cost_trends (TrendAnalyzer.Trend)                      *)
(***************************************************************************)
\* The days of the period that have a row: the entries of the daily-cost
\* sequence.
DaysWithRows(days) ==
    {rows[i].timestamp : i \in {j \in DOMAIN rows :
        rows[j].timestamp >= Today - days /\ rows[j].timestamp <= Today}}

\* The sum of the costs of the entries from..to of a daily-cost sequence.
RECURSIVE CostOfEntries(_, _, _)
CostOfEntries(daily, from, to) ==
    IF from > to THEN 0 ELSE daily[to].cost + CostOfEntries(daily, from, to - 1)

\* C11: with fewer than 7 entries in the daily-cost sequence of the window,
\* whatever their costs and also with none, the trend is insufficient_data
\* with a percentage of 0.
Thm_C11_FewerThanSevenInsufficient ==
    (reply.kind = "trends" /\ Cardinality(DaysWithRows(reply.period_days)) < 7) =>
        /\ reply.status_code = 200
        /\ reply.trend_direction = "insufficient_data"
        /\ reply.trend_percentage = 0

\* C11 witness: six days, not all of them free, were reported as
\* insufficient data.
Wit_C11_SixDaysInsufficient ==
    /\ reply.kind = "trends"
    /\ Cardinality(DaysWithRows(reply.period_days)) = 6
    /\ \E i \in DOMAIN rows : rows[i].cost > 0
    /\ reply.status_code = 200
    /\ reply.trend_direction = "insufficient_data"

\* C12: with 7 entries or more, 7 and 8 to 13 included, the trend is
\* answered without error and is increasing or decreasing.
Orig_C12_SevenOrMoreGivesDirection ==
    (reply.kind = "trends" /\ Cardinality(DaysWithRows(reply.period_days)) >= 7) =>
        /\ reply.status_code = 200
        /\ reply.trend_direction \in {"increasing", "decreasing"}

\* C13: there is no flat trend.  When the average of the last 7 entries
\* equals the average of the entries before them (7, or fewer when there
\* are fewer than 14) the trend is decreasing with a percentage of 0; it
\* is increasing only when the recent average is strictly larger; 14 days
\* at 10 dollars a day give decreasing and 0.
Thm_C13_NoFlatTrend ==
    (/\ reply.kind = "trends"
     /\ reply.status_code = 200
     /\ reply.trend_direction # "insufficient_data") =>
        LET daily     == reply.daily_costs
            n         == Len(daily)
            first     == IF n >= 14 THEN n - 13 ELSE 1
            recent    == CostOfEntries(daily, n - 6, n)
            previous  == CostOfEntries(daily, first, n - 7)
            beforeLen == n - 7 - first + 1
        IN  /\ recent * beforeLen = previous * 7 =>
                /\ reply.trend_direction = "decreasing"
                /\ reply.trend_percentage = 0
            /\ reply.trend_direction = "increasing" <=> recent * beforeLen > previous * 7
            /\ (n = 14 /\ \A k \in 1..n : daily[k].cost = 1000) =>
                /\ reply.trend_direction = "decreasing"
                /\ reply.trend_percentage = 0

\* C13 witness: 14 days at 10 dollars a day were analysed and reported as
\* decreasing.
Wit_C13_FourteenFlatDays ==
    /\ reply.kind = "trends"
    /\ reply.status_code = 200
    /\ Len(reply.daily_costs) = 14
    /\ \A k \in 1..14 : reply.daily_costs[k].cost = 1000
    /\ reply.trend_direction = "decreasing"

(***************************************************************************)
(* Claims about get_cost_summary and get_services_breakdown (Aggregator)   *)
(***************************************************************************)
\* The rows of the period of a query: from days days ago up to today.
RowsOfPeriod(days) ==
    {i \in DOMAIN rows : rows[i].timestamp >= Today - days /\ rows[i].timestamp <= Today}

\* The cost of a set of rows, in mills.
RECURSIVE CostOfRows(_)
CostOfRows(ids) ==
    IF ids = {} THEN 0
    ELSE LET i == CHOOSE j \in ids : TRUE IN rows[i].cost + CostOfRows(ids \ {i})

\* The breakdown entries of a reply.
Entries(r) == IF r.kind = "summary" THEN r.service_breakdown ELSE r.services

RECURSIVE SumOfPercentages(_)
SumOfPercentages(entries) ==
    IF entries = <<>> THEN 0 ELSE Head(entries).percentage + SumOfPercentages(Tail(entries))

RECURSIVE SumOfTotals(_)
SumOfTotals(entries) ==
    IF entries = <<>> THEN 0 ELSE Head(entries).total_cost + SumOfTotals(Tail(entries))

Distance(a, b) == IF a < b THEN b - a ELSE a - b

\* The two cents next to an amount in mills divided by d.
Cents(mills, d) == {RoundDiv(mills, 10 * d, FALSE), RoundDiv(mills, 10 * d, TRUE)}

\* C14: the daily average of a summary is the total cost divided by the
\* number of calendar days of the queried range, its first and its last
\* day both counted, whatever days have rows.
Orig_C14_AverageOverInclusiveDays ==
    reply.kind = "summary" =>
        reply.daily_average \in
            Cents(CostOfRows(RowsOfPeriod(reply.period_days)), reply.period_days + 1)

\* C15 as stated: with a total of 0 every percentage is 0, and with a total
\* above 0 the rounded percentages sum to 100 within 0.1, for any number of
\* services.
Orig_C15_PercentagesWithinTenth ==
    reply.kind \in {"summary", "services"} =>
        LET total == CostOfRows(RowsOfPeriod(reply.period_days))
        IN  /\ total = 0 => \A k \in DOMAIN Entries(reply) : Entries(reply)[k].percentage = 0
            /\ total > 0 => Distance(SumOfPercentages(Entries(reply)), 10000) <= 10

\* C15: with a total of 0 every percentage is 0, and with a total above 0
\* the rounded percentages of n services sum to 100 within 0.005 * n, which
\* is within 0.1 for up to 20 services.
Thm_C15_PercentagesWithinHalfCentEach ==
    reply.kind \in {"summary", "services"} =>
        LET total == CostOfRows(RowsOfPeriod(reply.period_days))
            n     == Len(Entries(reply))
            sum   == SumOfPercentages(Entries(reply))
        IN  /\ total = 0 => \A k \in DOMAIN Entries(reply) : Entries(reply)[k].percentage = 0
            /\ total > 0 => 2 * Distance(sum, 10000) <= n
            /\ (total > 0 /\ n <= 20) => Distance(sum, 10000) <= 10

\* C15 witness: three services of equal cost were reported with 33.33
\* percent each, 99.99 in all.
Wit_C15_ThreeThirds ==
    /\ reply.kind = "services"
    /\ Len(reply.services) = 3
    /\ \A k \in 1..3 : reply.services[k].percentage = 3333

OfAccount(ids, account_id) == {i \in ids : rows[i].account_id = account_id}

\* The rows of one day among a set of rows.
OnDay(ids, day) == {i \in ids : rows[i].timestamp = day}

\* C18: for every account and day, the daily total stored with the rows
\* (total_daily_cost) and the daily cost the trends report for the day
\* equal the sum of the costs of the rows stored for that account and day.
Orig_C18_DailyTotalIsSumOfRows ==
    /\ \A i \in DOMAIN rows :
        rows[i].total_daily_cost =
            CostOfRows(OnDay(OfAccount(DOMAIN rows, rows[i].account_id), rows[i].timestamp))
    /\ reply.kind = "trends" =>
        \A k \in DOMAIN reply.daily_costs :
            \A i \in OnDay(RowsOfPeriod(reply.period_days), reply.daily_costs[k].date) :
                reply.daily_costs[k].cost \in
                    Cents(CostOfRows(OnDay(OfAccount(DOMAIN rows, rows[i].account_id),
                                           rows[i].timestamp)), 1)

\* C19: what a query returns is computed from the rows of exactly one
\* account: the total of a summary, the record counts of a breakdown and
\* the daily costs of the trends are those of one account's rows, also
\* with rows of two accounts in the table.
Orig_C19_OneAccountPerResult ==
    reply.kind # "none" =>
        \E a \in BackendAccounts :
            LET mine == OfAccount(RowsOfPeriod(reply.period_days), a)
            IN  /\ reply.kind = "summary" => reply.total_cost \in Cents(CostOfRows(mine), 1)
                /\ reply.kind = "services" =>
                    \A k \in DOMAIN reply.services :
                        reply.services[k].record_count =
                            Cardinality({i \in mine : rows[i].service = reply.services[k].service})
                /\ reply.kind = "trends" =>
                    \A k \in DOMAIN reply.daily_costs :
                        reply.daily_costs[k].cost \in
                            Cents(CostOfRows(OnDay(mine, reply.daily_costs[k].date)), 1)

(***************************************************************************)
(* Claims about the ingestion and about failed reads of cost data          *)
(***************************************************************************)
\* The items the table holds for one cost record key.
ItemsOfKey(account_id, timestamp, service) ==
    {x \in table : /\ x.account_id = account_id
                   /\ x.timestamp = timestamp
                   /\ "cost" \in DOMAIN x
                   /\ x.service = service}

\* C17: after any sequence of ingestions the table holds exactly one cost
\* record for every key (account, date, service) an ingestion has written:
\* a second write of a key replaces the record, and records of different
\* services of one account and date do not replace one another.
Orig_C17_OneRecordPerKey ==
    \A e \in log :
        e.handler = "cost_processor" =>
            \A key \in e.keys :
                Cardinality(ItemsOfKey(e.account, key[1], key[2])) = 1

\* C20: a cycle whose read of the cost data failed returns a server error,
\* computes no alert, recommendation or record from substituted data and
\* stores nothing derived from such data.
Orig_C20_NoResultFromFallbackData ==
    \A e \in log :
        e.fallback =>
            /\ e.statusCode = 500
            /\ e.generated = 0
            /\ StoredBy(e.cycle) = {}

(***************************************************************************)
(* Claims about the trend figure of get_cost_summary                       *)
(***************************************************************************)
\* The percentages get_cost_trends may answer on the rows for a period.
TrendPercentagesOf(days) ==
    {get_cost_trends(rows, days, up).trend_percentage :
        up \in {u \in SUBSET TrendTies(rows, days) :
                    get_cost_trends(rows, days, u).status_code = 200}}

\* C21: the trend_percentage of a summary is 0 for a period of fewer than
\* 14 days, and for a period of 14 days or more it is the percentage that
\* get_cost_trends gives on the same rows (the mean of the last 7 days
\* against the mean of the 7 days before, as an absolute value).
Orig_C21_SummaryTrendIsTrendsPercentage ==
    reply.kind = "summary" =>
        IF reply.period_days < 14
        THEN reply.trend_percentage = 0
        ELSE reply.trend_percentage \in TrendPercentagesOf(reply.period_days)

(***************************************************************************)
(* Claims about malformed limits and the order of the alerts               *)
(***************************************************************************)
\* Whether a configuration of limits holds a negative threshold.
HasNegativeThreshold(limits) ==
    \/ limits.total < 0
    \/ \E s \in DOMAIN limits.perService : limits.perService[s] < 0

\* C22: an evaluation for a configuration with a negative threshold fails
\* before any comparison is made: it does not return, and no alert is
\* emitted.
Orig_C22_NegativeLimitsRejected ==
    HasNegativeThreshold(evLimits) => (evPc # "ret" /\ evAlerts = <<>>)

(***************************************************************************)
(* Claims about cycles of different accounts                               *)
(***************************************************************************)
\* The items the table holds for an account.
ItemsOfAccount(tbl, account_id) == {x \in tbl : x.account_id = account_id}

\* The accounts with a budget_alert cycle that is storing its alerts, or
\* with a cost_optimizer cycle that is storing its recommendations.
StoringAccounts ==
    {ba[i].account : i \in {k \in BudgetInvocations : ba[k].pc = "send"}}
    \cup (IF co.pc = "store" THEN {co.account} ELSE {})

\* C23: cycles of different accounts do not touch one another's records,
\* however their steps interleave.  A step that stores for one account
\* leaves the records of every other account as they are: what it adds is
\* keyed by the account of the cycle that takes the step, and a record
\* leaves the table only when a record of its own account takes its place.
\* What a cycle sends is what check_budget_thresholds gave on the costs the
\* cycle itself read.
Thm_C23_AccountsDoNotInterfere ==
    [][/\ \A y \in table' \ table :
            /\ \A a \in Accounts \ {y.account_id} :
                    ItemsOfAccount(table', a) = ItemsOfAccount(table, a)
            /\ "alert_type" \in DOMAIN y => y.account_id \in StoringAccounts
       /\ table' \subseteq table => table' = table
       /\ \A i \in BudgetInvocations :
            ba'[i].pc = "send" =>
                ba'[i].alerts = check_budget_thresholds(ba'[i].costs)]_vars

\* C23 witness: a cycle of one account is between two of its alerts, and a
\* cycle of the other account has stored an alert with the same clock
\* reading in the meantime; the table holds both records.
Wit_C23_TwoAccountsInterleaved ==
    \E i \in BudgetInvocations :
        /\ ba[i].pc = "send"
        /\ ba[i].sent >= 1
        /\ \E x, y \in table :
            /\ x.cycle = ba[i].cycle
            /\ x.account_id = ba[i].account
            /\ y.cycle > x.cycle
            /\ y.account_id # x.account_id
            /\ y.timestamp = x.timestamp

(***************************************************************************)
(* Claims about the percentage and the days of get_cost_trends             *)
(***************************************************************************)
\* C24: for a daily-cost sequence of 7 entries or more the computation does
\* not divide by zero, and the percentage is
\* |recentAvg - previousAvg| / previousAvg * 100 (to the hundredth) when
\* the previous average is above 0, and 0 when it is 0; it is never
\* negative.
Orig_C24_PercentageDefinedFromSeven ==
    (reply.kind = "trends" /\ Cardinality(DaysWithRows(reply.period_days)) >= 7) =>
        /\ reply.status_code = 200
        /\ reply.status_code = 200 =>
            LET daily     == reply.daily_costs
                n         == Len(daily)
                first     == IF n >= 14 THEN n - 13 ELSE 1
                beforeLen == n - 7 - first + 1
                recent    == CostOfEntries(daily, n - 6, n) * beforeLen
                previous  == CostOfEntries(daily, first, n - 7) * 7
            IN  /\ reply.trend_percentage >= 0
                /\ previous = 0 => reply.trend_percentage = 0
                /\ previous > 0 =>
                    reply.trend_percentage \in
                        {RoundDiv(10000 * Distance(recent, previous), previous, FALSE),
                         RoundDiv(10000 * Distance(recent, previous), previous, TRUE)}

\* The days that have an entry in a daily-cost sequence.
DatesOf(daily) == {daily[k].date : k \in DOMAIN daily}

\* C25: the daily-cost sequence of a trend over a window with rows has an
\* entry for every calendar day of the window, a day without rows with
\* cost 0, so that the last 7 entries are the last 7 calendar days and the
\* 7 entries before them the 7 calendar days before those.
Orig_C25_EveryCalendarDayHasEntry ==
    (/\ reply.kind = "trends"
     /\ reply.status_code = 200
     /\ DaysWithRows(reply.period_days) # {}) =>
        LET daily == reply.daily_costs
        IN  /\ \A d \in (Today - reply.period_days + 1)..Today : d \in DatesOf(daily)
            /\ \A k \in DOMAIN daily :
                    daily[k].date \notin DaysWithRows(reply.period_days) => daily[k].cost = 0
            /\ Len(daily) >= 7 =>
                    DatesOf(RecentWeek(daily)) = (Today - 6)..Today

\* The place of a service in the costs that were evaluated.
PlaceInCosts(service) == CHOOSE k \in DOMAIN evCosts : evCosts[k].service = service

\* C26: the alerts come total first: an alert of the TOTAL is the first
\* element, and the alerts of the services follow in the order in which
\* their services stand in the costs.  No service has two alerts, so this
\* fixes the order of the alerts of an input.
Thm_C26_TotalFirstThenDictOrder ==
    evPc = "ret" =>
        /\ \A k \in DOMAIN evAlerts :
            /\ evAlerts[k].service = "TOTAL" => k = 1
            /\ evAlerts[k].type = "BUDGET_EXCEEDED" <=> evAlerts[k].service = "TOTAL"
            /\ evAlerts[k].service # "TOTAL" =>
                    \E j \in DOMAIN evCosts : evCosts[j].service = evAlerts[k].service
        /\ \A k, l \in DOMAIN evAlerts :
            (k < l /\ evAlerts[k].service # "TOTAL") =>
                /\ evAlerts[l].service # "TOTAL"
                /\ PlaceInCosts(evAlerts[k].service) < PlaceInCosts(evAlerts[l].service)

\* C26 witness: RDS stands before EC2 in the costs, both are over their
\* limits and so is the total: the alerts are those of TOTAL, RDS, EC2.
Wit_C26_TotalThenRdsThenEc2 ==
    /\ evPc = "ret"
    /\ Len(evAlerts) = 3
    /\ evAlerts[1].service = "TOTAL"
    /\ evAlerts[2].service = RDS
    /\ evAlerts[3].service = EC2
    /\ PlaceInCosts(RDS) < PlaceInCosts(EC2)

(***************************************************************************)
(* Claims about the order of the breakdowns                                *)
(***************************************************************************)
\* C27: every breakdown that is returned, the services of
\* get_services_breakdown and the service_breakdown of get_cost_summary,
\* is ordered by total cost, descending: no entry has a smaller total cost
\* than the entry after it.
Orig_C27_BreakdownsDescending ==
    reply.kind \in {"summary", "services"} =>
        \A k \in 1..(Len(Entries(reply)) - 1) :
            Entries(reply)[k].total_cost >= Entries(reply)[k + 1].total_cost

(***************************************************************************)
(* Claims about the stored recommendations                                 *)
(***************************************************************************)
\* The recommendation records the table holds of one cycle.
RecommendationsOf(cycle) ==
    {x \in table : "recommendation_id" \in DOMAIN x /\ x.cycle = cycle}

\* C28: the recommendations a cycle has stored carry recommendation_ids
\* that differ from one another, however many there are and also when they
\* are written within one second.
Thm_C28_DistinctIdsWithinCycle ==
    \A c \in 1..cycles :
        \A x, y \in RecommendationsOf(c) :
            x # y => x.recommendation_id # y.recommendation_id

\* C28 witness: a cycle has stored two recommendations within one second.
Wit_C28_TwoStoredInOneSecond ==
    \E c \in 1..cycles :
        \E x, y \in RecommendationsOf(c) :
            /\ x.seq < y.seq
            /\ x.recommendation_id[3] = y.recommendation_id[3]

(***************************************************************************)
(* Claims about get_budget_summary                                         *)
(***************************************************************************)
\* The alerts created in the 24 hours before now: those not older than
\* 24 hours, and those younger than 24 hours.
CreatedWithinDay(now) ==
    {i \in DOMAIN budget_alerts : budget_alerts[i].created_at >= now - HoursPerDay}

CreatedWithinDayStrictly(now) ==
    {i \in DOMAIN budget_alerts : budget_alerts[i].created_at > now - HoursPerDay}

\* C29: the recent count of a budget summary is the number of alerts
\* created within the 24 hours before the call, at whatever time of day the
\* call is made (an alert exactly 24 hours old may count or not).
Orig_C29_RecentIsLastTwentyFourHours ==
    reply.kind = "budget_summary" =>
        /\ reply.recent_alerts >= Cardinality(CreatedWithinDayStrictly(hour))
        /\ reply.recent_alerts <= Cardinality(CreatedWithinDay(hour))

\* C30: a cost_optimizer cycle that generated recommendations, and whose
\* writes the table did not refuse, has stored one record for each of them
\* and returned 200, the count it reports being the number of its records.
Orig_C30_GeneratedAreStored ==
    \A e \in log :
        (e.handler = "cost_optimizer" /\ e.generated > 0 /\ ~e.refused) =>
            /\ e.statusCode = 200
            /\ Cardinality(RecommendationsOf(e.cycle)) = e.generated
====
